---- MODULE Spec2Model ----
(***************************************************************************)
(* Model of redhat-subscription-exporter (src/main.go, the configurable    *)
(* variant at lines 169-424): the paginated fetch loop                     *)
(* FetchAllSubscriptions, the background task started by metricsLoop       *)
(* (fetch, export or project, sleep) and the control path of main.         *)
(***************************************************************************)
EXTENDS Integers, Sequences, FiniteSets, TLC

(***************************************************************************)
(* Bounds of the model.                                                    *)
(***************************************************************************)
\* pages one call of FetchAllSubscriptions may request before the model stops following it
MaxPages == 2
\* cycles of the background loop the model follows
MaxCycles == 2

(***************************************************************************)
(* Program constants.                                                      *)
(***************************************************************************)
\* limit := 50 (main.go:259)
Limit == 50
\* getEnvInt("RH_FETCH_INTERVAL", 30) (main.go:411)
DefaultInterval == 30

(***************************************************************************)
(* Go slices: a nil slice and an empty non-nil slice are different values  *)
(* that have the same length.                                              *)
(***************************************************************************)
NilSlice == [isNil |-> TRUE, elems |-> <<>>]

MkSlice(s) == [isNil |-> FALSE, elems |-> s]

\* append(a, b...): returns a itself when b has no elements
AppendSlice(a, b) ==
    IF Len(b.elems) = 0 THEN a ELSE MkSlice(a.elems \o b.elems)

(***************************************************************************)
(* strconv.ParseFloat on the decimal grammar [sign] digits [. digits] or   *)
(* [sign] . digits, computed character by character.  A text with any      *)
(* other character, or with no digit, is a syntax error.  The value is an  *)
(* exact rational <<numerator, denominator>> in lowest terms.              *)
(***************************************************************************)
DigitVal(c) ==
    CASE c = "0" -> 0 [] c = "1" -> 1 [] c = "2" -> 2 [] c = "3" -> 3
      [] c = "4" -> 4 [] c = "5" -> 5 [] c = "6" -> 6 [] c = "7" -> 7
      [] c = "8" -> 8 [] c = "9" -> 9 [] OTHER -> -1

IsDigit(c) == DigitVal(c) >= 0

RECURSIVE Gcd(_, _)
Gcd(a, b) == IF b = 0 THEN a ELSE Gcd(b, a % b)

Rat(n, d) ==
    LET a == IF n < 0 THEN -n ELSE n
        g == Gcd(a, d)
    IN  <<n \div g, d \div g>>

\* scans s from position i; st = [num, den, digits, seenDot]
RECURSIVE ScanDecimal(_, _, _)
ScanDecimal(s, i, st) ==
    IF i > Len(s) THEN [ok |-> st.digits > 0, num |-> st.num, den |-> st.den]
    ELSE IF IsDigit(s[i])
         THEN ScanDecimal(s, i + 1,
                  [num     |-> st.num * 10 + DigitVal(s[i]),
                   den     |-> IF st.seenDot THEN st.den * 10 ELSE st.den,
                   digits  |-> st.digits + 1,
                   seenDot |-> st.seenDot])
         ELSE IF s[i] = "." /\ ~st.seenDot
              THEN ScanDecimal(s, i + 1, [st EXCEPT !.seenDot = TRUE])
              ELSE [ok |-> FALSE, num |-> 0, den |-> 1]

\* variant that yields 0 instead of an error
ParseFloatLenient(s) ==
    LET signed == Len(s) > 0 /\ s[1] \in {"+", "-"}
        neg    == Len(s) > 0 /\ s[1] = "-"
        r      == ScanDecimal(s, IF signed THEN 2 ELSE 1,
                              [num |-> 0, den |-> 1, digits |-> 0, seenDot |-> FALSE])
    IN  IF r.ok
        THEN [err |-> FALSE, val |-> Rat(IF neg THEN -r.num ELSE r.num, r.den)]
        ELSE [err |-> FALSE, val |-> <<0, 1>>]

ParseFloat(s) ==
    LET signed == Len(s) > 0 /\ s[1] \in {"+", "-"}
        neg    == Len(s) > 0 /\ s[1] = "-"
        r      == ScanDecimal(s, IF signed THEN 2 ELSE 1,
                              [num |-> 0, den |-> 1, digits |-> 0, seenDot |-> FALSE])
    IN  IF r.ok
        THEN [err |-> FALSE, val |-> Rat(IF neg THEN -r.num ELSE r.num, r.den)]
        ELSE [err |-> TRUE, val |-> <<0, 1>>]

(***************************************************************************)
(* time.Time as seconds and nanoseconds since the epoch and the offset of   *)
(* its zone in minutes; Unix() drops the nanoseconds and the zone;         *)
(* float64(int64) of it is the rational sec/1.                             *)
(***************************************************************************)
Unix(t) == t.sec

Float64(n) == <<n, 1>>

(***************************************************************************)
(* Subscription records served by the remote side.                        *)
(***************************************************************************)
QuantityTexts ==
    << <<"1", "0">>, <<"a", "b", "c">>, <<"3", ".", "5">>, <<>>, <<"-", "2">>,
       <<"1", ".", "2", ".">>, <<".", "5">> >>

SubscriptionNumbers == <<"1001", "1002">>

\* the record at position i of a body of variant v
RecAt(v, i) ==
    [contractNumber     |-> "C7",
     endDate            |-> [sec |-> 2000 + 100 * v + (i % 3), nsec |-> 500, off |-> 0],
     quantity           |-> QuantityTexts[((i + v) % Len(QuantityTexts)) + 1],
     sku                |-> "RH001",
     startDate          |-> [sec |-> 1000 + 100 * v + (i % 3), nsec |-> 0,
                             off |-> IF i % 2 = 0 THEN 120 ELSE 0],
     status             |-> IF v = 1 THEN "Active" ELSE "Expired",
     subscriptionName   |-> "RHEL",
     subscriptionNumber |-> SubscriptionNumbers[(i % Len(SubscriptionNumbers)) + 1],
     pools              |-> IF i % 3 = 0 THEN NilSlice
                            ELSE IF i % 3 = 2 THEN MkSlice(<<>>)
                            ELSE MkSlice(<<[quantity |-> 2, consumed |-> 1, id |-> "p1", type |-> "Physical"],
                                           [quantity |-> 5, consumed |-> 0, id |-> "p2", type |-> "Virtual"]>>)]

MkBody(n, v) == [i \in 1..n |-> RecAt(v, i)]

(***************************************************************************)
(* Response bodies as decoded JSON documents.  kind is "invalid" (not      *)
(* JSON), "null", "array" (a top-level array, elements in body) or         *)
(* "object" (the keys error.code, error.message, body and pagination; an   *)
(* absent key has the zero value, an absent body is the nil slice).        *)
(***************************************************************************)
NoPagination == [count |-> 0, limit |-> 0, offset |-> 0]

InvalidDoc ==
    [kind |-> "invalid", code |-> 0, message |-> "", body |-> NilSlice, pagination |-> NoPagination]

NullDoc ==
    [kind |-> "null", code |-> 0, message |-> "", body |-> NilSlice, pagination |-> NoPagination]

ArrayDoc(elems) ==
    [kind |-> "array", code |-> 0, message |-> "", body |-> MkSlice(elems), pagination |-> NoPagination]

ObjectDoc(code, message, body, pagination) ==
    [kind |-> "object", code |-> code, message |-> message, body |-> body, pagination |-> pagination]

\* json.Unmarshal(bodyBytes, &errResp)
UnmarshalErrorResponse(doc) ==
    [ok      |-> doc.kind \in {"object", "null"},
     Code    |-> IF doc.kind = "object" THEN doc.code ELSE 0,
     Message |-> IF doc.kind = "object" THEN doc.message ELSE ""]

\* json.Unmarshal(bodyBytes, &result)
UnmarshalSubscriptionsResponse(doc) ==
    [ok         |-> doc.kind \in {"object", "null"},
     Body       |-> IF doc.kind = "object" THEN doc.body ELSE NilSlice,
     Pagination |-> IF doc.kind = "object" THEN doc.pagination ELSE NoPagination]

\* json.Unmarshal(body, &subs), subs a nil []Subscription
UnmarshalSubscriptions(doc) ==
    [ok   |-> doc.kind \in {"array", "null"},
     subs |-> IF doc.kind = "array" THEN doc.body ELSE NilSlice]

(***************************************************************************)
(* The JSON text of a record list, as encoding/json writes and reads the   *)
(* Subscription struct.  A text is null or an array of objects keyed by    *)
(* the struct's json tags.  A time.Time is written in RFC 3339 as the      *)
(* clock reading of its zone (wall), the fraction of the second cut after  *)
(* its last nonzero digit (frac, absent when zero) and the zone offset,    *)
(* and read back from them.  A nil slice is written as null, any other     *)
(* slice as an array.  Strings and integers read back as written.          *)
(***************************************************************************)
DigitChars == <<"0", "1", "2", "3", "4", "5", "6", "7", "8", "9">>

\* the n low decimal digits of v, most significant first
RECURSIVE FixedDigits(_, _)
FixedDigits(v, n) ==
    IF n = 0 THEN <<>> ELSE Append(FixedDigits(v \div 10, n - 1), DigitChars[(v % 10) + 1])

RECURSIVE TrimZeros(_)
TrimZeros(ds) ==
    IF ds # <<>> /\ ds[Len(ds)] = "0" THEN TrimZeros(SubSeq(ds, 1, Len(ds) - 1)) ELSE ds

\* variant that writes milliseconds only
FormatFracMillis(nsec) == TrimZeros(FixedDigits(nsec \div 1000000, 3))

\* the fraction of RFC3339Nano: nine digits, trailing zeros removed
FormatFrac(nsec) == TrimZeros(FixedDigits(nsec, 9))

RECURSIVE DigitsValue(_)
DigitsValue(ds) ==
    IF ds = <<>> THEN 0
    ELSE DigitsValue(SubSeq(ds, 1, Len(ds) - 1)) * 10 + DigitVal(ds[Len(ds)])

RECURSIVE Pow10(_)
Pow10(n) == IF n = 0 THEN 1 ELSE 10 * Pow10(n - 1)

\* the nanoseconds a fraction of up to nine digits stands for
ParseFrac(ds) == DigitsValue(ds) * Pow10(9 - Len(ds))

\* Time.MarshalJSON
MarshalTime(t) == [wall |-> t.sec + 60 * t.off, frac |-> FormatFrac(t.nsec), zone |-> t.off]

\* Time.UnmarshalJSON
UnmarshalTime(j) == [sec |-> j.wall - 60 * j.zone, nsec |-> ParseFrac(j.frac), off |-> j.zone]

MarshalPools(pools) ==
    IF pools.isNil THEN [kind |-> "null", elems |-> <<>>]
    ELSE [kind |-> "array", elems |-> pools.elems]

UnmarshalPools(j) == IF j.kind = "null" THEN NilSlice ELSE MkSlice(j.elems)

MarshalSubscription(s) ==
    [contractNumber     |-> s.contractNumber,
     endDate            |-> MarshalTime(s.endDate),
     quantity           |-> s.quantity,
     sku                |-> s.sku,
     startDate          |-> MarshalTime(s.startDate),
     status             |-> s.status,
     subscriptionName   |-> s.subscriptionName,
     subscriptionNumber |-> s.subscriptionNumber,
     pools              |-> MarshalPools(s.pools)]

UnmarshalSubscription(j) ==
    [contractNumber     |-> j.contractNumber,
     endDate            |-> UnmarshalTime(j.endDate),
     quantity           |-> j.quantity,
     sku                |-> j.sku,
     startDate          |-> UnmarshalTime(j.startDate),
     status             |-> j.status,
     subscriptionName   |-> j.subscriptionName,
     subscriptionNumber |-> j.subscriptionNumber,
     pools              |-> UnmarshalPools(j.pools)]

\* a text that is not JSON: an empty or truncated file
InvalidText == [elems |-> <<>>, kind |-> "invalid"]

\* the document a JSON text of a record list parses to
ReadJSON(text) ==
    IF text.kind = "invalid" THEN InvalidDoc
    ELSE IF text.kind = "null" THEN NullDoc
    ELSE ArrayDoc([i \in 1..Len(text.elems) |-> UnmarshalSubscription(text.elems[i])])

\* json.MarshalIndent(subs, "", "  "): a nil slice encodes as null, any other
\* as an array; the encoders of the record's field types return no error
MarshalIndent(subs) ==
    [err  |-> FALSE,
     data |-> IF subs.isNil THEN [kind |-> "null", elems |-> <<>>]
              ELSE [kind |-> "array",
                    elems |-> [i \in 1..Len(subs.elems) |-> MarshalSubscription(subs.elems[i])]]]

(***************************************************************************)
(* What the remote side may answer.  A response is a transport failure     *)
(* (err), or a body that may fail to read (readErr) and otherwise holds    *)
(* doc.                                                                    *)
(***************************************************************************)
Response(err, readErr, doc) == [err |-> err, doc |-> doc, readErr |-> readErr]

\* the pages served: <<number of records, variant>>
PageShapes ==
    {<<0, 1>>, <<Limit - 1, 1>>, <<Limit - 1, 2>>, <<Limit, 2>>, <<Limit + 1, 1>>}

\* pagination metadata of a page of n records: variant 1 reports the page
\* as it is, variant 2 reports a full page as empty and a short page as full
PaginationOf(n, v) ==
    IF v = 1 THEN [count |-> n, limit |-> Limit, offset |-> 0]
    ELSE [count |-> IF n < Limit THEN Limit ELSE 0, limit |-> Limit, offset |-> Limit]

PageResponses ==
    {Response(FALSE, FALSE, ObjectDoc(0, "", MkSlice(MkBody(p[1], p[2])), PaginationOf(p[1], p[2]))) :
        p \in PageShapes}

ErrorEnvelopes ==
    {Response(FALSE, FALSE, ObjectDoc(403, "denied", NilSlice, NoPagination)),
     Response(FALSE, FALSE, ObjectDoc(403, "denied", MkSlice(MkBody(Limit, 1)), PaginationOf(Limit, 1))),
     Response(FALSE, FALSE, ObjectDoc(500, "", NilSlice, NoPagination))}

LiveResponses ==
    {Response(TRUE, FALSE, InvalidDoc),
     Response(FALSE, TRUE, ObjectDoc(0, "", MkSlice(MkBody(Limit - 1, 1)), PaginationOf(Limit - 1, 1))),
     Response(FALSE, FALSE, InvalidDoc),
     Response(FALSE, FALSE, NullDoc),
     Response(FALSE, FALSE, ArrayDoc(MkBody(1, 1)))}
    \cup ErrorEnvelopes \cup PageResponses

ImportLens == {0, 5}

ImportResponses ==
    {Response(TRUE, FALSE, InvalidDoc),
     Response(FALSE, TRUE, InvalidDoc),
     Response(FALSE, FALSE, InvalidDoc),
     Response(FALSE, FALSE, NullDoc),
     Response(FALSE, FALSE, ObjectDoc(403, "denied", NilSlice, NoPagination))}
    \cup {Response(FALSE, FALSE, ArrayDoc(MkBody(n, v))) : n \in ImportLens, v \in {1, 2}}

(***************************************************************************)
(* Configurations the process is started with: the offline token of the    *)
(* environment, the command-line flags as parsed by init(), and the        *)
(* environment variables the README documents as overriding the flags.     *)
(***************************************************************************)
NoEnv ==
    [RH_EXPORT_FILE |-> "", RH_IMPORT_URL |-> "", RH_IMPORT_USERNAME |-> "", RH_IMPORT_PASSWORD |-> ""]

AllEnv ==
    [RH_EXPORT_FILE |-> "env.json", RH_IMPORT_URL |-> "http://env/subs.json",
     RH_IMPORT_USERNAME |-> "envuser", RH_IMPORT_PASSWORD |-> "envpass"]

Tokens == {"", "offline-token"}

ExportPaths == {"", "out.json"}

ImportURLs == {"http://mirror/subs.json", ":bad"}

\* http.NewRequest fails on a URL that does not parse
URLParses(u) == u # ":bad"

Config(token, export, url, user, pass, env) ==
    [token |-> token, export |-> export, url |-> url, user |-> user, pass |-> pass, env |-> env]

Configs ==
    {Config(t, e, "", "", "", NoEnv) : t \in Tokens, e \in ExportPaths}
    \cup {Config(t, "out.json", "", "", "", AllEnv) : t \in Tokens}
    \cup {Config(t, e, u, usr, pw, NoEnv) :
            t \in Tokens, e \in ExportPaths, u \in ImportURLs, usr \in {"", "user"}, pw \in {"", "secret"}}

NoFile == [data |-> InvalidText, written |-> FALSE]

NoParams ==
    [token |-> "", export |-> "", jsonUrl |-> "", jsonUser |-> "", jsonPass |-> "", interval |-> 0]

VARIABLES
    environ,                    \* environment: RH_OFFLINE_TOKEN and the four override variables
    exportToFile, importUrl,    \* package variables set by init() from the flags
    importUsername, importPassword,
    mainPc,                     \* position of main
    exited, exitCode,           \* whether the process has terminated, and its status
    serverStarted,              \* http.ListenAndServe is running
    params,                     \* arguments of the call of metricsLoop
    client,                     \* the *http.Client metricsLoop built: "none", "oauth2" or "plain"
    bgPc,                       \* position of the goroutine started by metricsLoop
    cycle,                      \* iterations of the goroutine's loop begun
    offset, allSubs,            \* locals of FetchAllSubscriptions
    subs, err,                  \* locals of the goroutine: the fetched records and the fetch error
    idx, quantity,              \* the range loop over subs and the parsed quantity
    doneMsg,                    \* the value being sent on done
    recvErr,                    \* err := <-done in main
    SubscriptionInfoGauge, SubscriptionQuantityGauge,
    SubscriptionStartGauge, SubscriptionEndGauge,
    file,                       \* the export file
    fetchOpen, loopOpen,        \* response bodies open, to be closed by the defers of FetchAllSubscriptions / of the goroutine
    requests,                   \* history: the requests issued in the cycle in progress
    served,                     \* history: the pages (or the one import document) accepted by the fetch in progress
    lastResp,                   \* history: the response the last request was answered with
    hist,                       \* history counters: spawns, fetches, writes, sends, recvs, sleeps, fatals
    listLen,                    \* the remote side: the length of the record list it serves from
    scraped                     \* the scraper: what its last scrape of /metrics returned

config == <<environ, exportToFile, importUrl, importUsername, importPassword>>

mainVars == <<mainPc, serverStarted, params, client, recvErr>>

procVars == <<exited, exitCode>>

fetchVars == <<offset, allSubs, subs, err, fetchOpen, loopOpen, served, lastResp>>

\* what lies outside the process: the remote list and the scraper
outside == <<listLen, scraped>>

rangeVars == <<idx, quantity>>

gauges ==
    <<SubscriptionInfoGauge, SubscriptionQuantityGauge, SubscriptionStartGauge, SubscriptionEndGauge>>

vars ==
    <<config, outside, mainVars, procVars, bgPc, cycle, fetchVars, rangeVars, doneMsg, gauges, file,
      requests, hist>>

EmptyGauge == [k \in {} |-> <<0, 1>>]

\* no request has been answered yet
NoResponse == [err |-> FALSE, doc |-> [kind |-> "none"], readErr |-> FALSE]

NoHistory ==
    [spawns |-> 0, fetches |-> 0, writes |-> 0, sends |-> 0, recvs |-> 0, sleeps |-> 0, fatals |-> 0]

\* nothing has been scraped yet
NoScrape == [taken |-> FALSE]

\* the process starts with configuration c; the remote side holds n records
Start(c, n) ==
    /\ environ = c.env @@ [RH_OFFLINE_TOKEN |-> c.token]
    /\ exportToFile = c.export
    /\ importUrl = c.url
    /\ importUsername = c.user
    /\ importPassword = c.pass
    /\ listLen = n
    /\ mainPc = "main"
    /\ exited = FALSE
    /\ exitCode = 0
    /\ serverStarted = FALSE
    /\ params = NoParams
    /\ client = "none"
    /\ bgPc = "none"
    /\ cycle = 0
    /\ offset = 0
    /\ allSubs = NilSlice
    /\ subs = NilSlice
    /\ err = ""
    /\ idx = 0
    /\ quantity = <<0, 1>>
    /\ doneMsg = ""
    /\ recvErr = ""
    /\ SubscriptionInfoGauge = EmptyGauge
    /\ SubscriptionQuantityGauge = EmptyGauge
    /\ SubscriptionStartGauge = EmptyGauge
    /\ SubscriptionEndGauge = EmptyGauge
    /\ file = NoFile
    /\ fetchOpen = 0
    /\ loopOpen = 0
    /\ requests = <<>>
    /\ served = <<>>
    /\ lastResp = NoResponse
    /\ hist = NoHistory
    /\ scraped = NoScrape

Init == \E c \in Configs : Start(c, 0)

(***************************************************************************)
(* Helpers of the actions.                                                 *)
(***************************************************************************)
getEnv(key, fallback) == IF environ[key] # "" THEN environ[key] ELSE fallback

Bump(field) == hist' = [hist EXCEPT ![field] = @ + 1]

\* log.Fatal: the process terminates with status 1
Fatal ==
    /\ exited' = TRUE
    /\ exitCode' = 1

\* variant that resets the vector before setting the series
SetGaugeReset(g, labels, v) == [k \in {labels} |-> v]

\* variant that adds to the value a series already has
SetGaugeAdd(g, labels, v) ==
    [k \in DOMAIN g \cup {labels} |->
        IF k # labels THEN g[k]
        ELSE IF k \in DOMAIN g THEN Rat(g[k][1] * v[2] + v[1] * g[k][2], g[k][2] * v[2])
        ELSE v]

\* GaugeVec.With(labels).Set(v)
SetGauge(g, labels, v) == [k \in DOMAIN g \cup {labels} |-> IF k = labels THEN v ELSE g[k]]

InfoLabels(s) ==
    <<s.contractNumber, s.subscriptionNumber, s.subscriptionName, s.status, s.sku>>

\* the Authorization header a request leaves with: the oauth2 client sets the
\* bearer token on every request, the plain client leaves the request as built
AuthOf(c, basicAuth) ==
    IF c = "oauth2" THEN "bearer" ELSE IF basicAuth THEN "basic" ELSE "none"

Request(target, query, auth) == [target |-> target, query |-> query, auth |-> auth]

(***************************************************************************)
(* FetchAllSubscriptions, one loop iteration in two steps: the request     *)
(* and the handling of its response.                                       *)
(***************************************************************************)
\* what the bytes read from the response decode from: a failed read leaves a truncated body
BodyDoc(r) == IF r.readErr THEN InvalidDoc ELSE r.doc

\* variant that also takes an envelope with an error code as an API error
PageErrorOnCode(r) ==
    IF r.err THEN "request failed"
    ELSE IF UnmarshalErrorResponse(BodyDoc(r)).ok
            /\ (UnmarshalErrorResponse(BodyDoc(r)).Message # "" \/ UnmarshalErrorResponse(BodyDoc(r)).Code # 0)
         THEN "API error"
         ELSE IF ~UnmarshalSubscriptionsResponse(BodyDoc(r)).ok THEN "decode failed" ELSE ""

\* the error an iteration returns with, "" when the page is accepted
PageError(r) ==
    IF r.err THEN "request failed"
    ELSE IF UnmarshalErrorResponse(BodyDoc(r)).ok /\ UnmarshalErrorResponse(BodyDoc(r)).Message # ""
         THEN "API error"
         ELSE IF ~UnmarshalSubscriptionsResponse(BodyDoc(r)).ok THEN "decode failed" ELSE ""

\* variant that hands the accumulated records back next to the error
ErrorResultPartial(all) == all

\* the record list returned next to an error
ErrorResult(all) == NilSlice

\* variant with a cap on the pages of one call: the second page is always the last
IsLastPageCapped(result) == Len(result.Body.elems) < Limit \/ offset >= Limit

\* variant that also stops on a page of exactly limit records
IsLastPageInclusive(result) == Len(result.Body.elems) <= Limit

\* if len(result.Body) < limit { break }
IsLastPage(result) == Len(result.Body.elems) < Limit

\* variant that steps by one less than the page size
NextOffsetOverlap(off) == off + Limit - 1

\* offset += limit
NextOffset(off) == off + Limit

\* client.Get(url) with url = baseURL?limit=..&offset=..
FetchGet ==
    /\ ~exited
    /\ bgPc = "get"
    /\ offset \div Limit < MaxPages
    /\ requests' = Append(requests, Request("api", <<Limit, offset>>, AuthOf(client, FALSE)))
    /\ bgPc' = "resp"
    /\ UNCHANGED <<config, outside, mainVars, procVars, cycle, fetchVars, rangeVars, doneMsg, gauges, file, hist>>

\* the handling of the response, which is one of responses
FetchRespFrom(responses) ==
    /\ ~exited
    /\ bgPc = "resp"
    /\ \E r \in responses :
        /\ lastResp' = r
        /\ LET result == UnmarshalSubscriptionsResponse(BodyDoc(r))
               all    == AppendSlice(allSubs, result.Body)
           IN  IF PageError(r) # ""
               THEN /\ subs' = ErrorResult(allSubs)
                    /\ err' = PageError(r)
                    /\ fetchOpen' = 0
                    /\ bgPc' = "fetched"
                    /\ UNCHANGED <<offset, allSubs, served>>
               ELSE /\ allSubs' = all
                    /\ served' = Append(served, [body |-> result.Body.elems, pagination |-> result.Pagination])
                    /\ IF IsLastPage(result)
                       THEN /\ subs' = all
                            /\ err' = ""
                            /\ fetchOpen' = 0
                            /\ bgPc' = "fetched"
                            /\ UNCHANGED offset
                       ELSE /\ offset' = NextOffset(offset)
                            /\ fetchOpen' = fetchOpen + 1
                            /\ bgPc' = "get"
                            /\ UNCHANGED <<subs, err>>
    /\ UNCHANGED <<config, outside, mainVars, procVars, cycle, loopOpen, rangeVars, doneMsg, gauges, file,
                   requests, hist>>

FetchResp == FetchRespFrom(LiveResponses)

(***************************************************************************)
(* main.                                                                   *)
(***************************************************************************)
\* variant that requires the token only when no import URL is given
TokenMissingLiveOnly(token) == token = "" /\ importUrl = ""

\* if token == ""
TokenMissing(token) == token = ""

\* token == "": print and os.Exit(1)
MainNoToken ==
    /\ ~exited
    /\ mainPc = "main"
    /\ TokenMissing(getEnv("RH_OFFLINE_TOKEN", ""))
    /\ exited' = TRUE
    /\ exitCode' = 1
    /\ mainPc' = "exited"
    /\ UNCHANGED <<config, outside, serverStarted, params, client, recvErr, bgPc, cycle, fetchVars, rangeVars,
                   doneMsg, gauges, file, requests, hist>>

\* the arguments main passes to metricsLoop
EffectiveParams ==
    [token    |-> getEnv("RH_OFFLINE_TOKEN", ""),
     export   |-> exportToFile,
     jsonUrl  |-> importUrl,
     jsonUser |-> importUsername,
     jsonPass |-> importPassword,
     interval |-> DefaultInterval]

\* variant that builds the token client in every mode
ClientForToken(jsonUrl) == "oauth2"

\* the client metricsLoop builds
ClientFor(jsonUrl) == IF jsonUrl = "" THEN "oauth2" ELSE "plain"

\* variant that goes on to the HTTP server in every mode
MainAfterCallListen(export) == "listen"

\* if exportToFile != "" { err := <-done ... } else the HTTP server
MainAfterCall(export) == IF export # "" THEN "recv" ELSE "listen"

\* done := make(chan error); metricsLoop(...) builds the client and starts the
\* goroutine; main goes on to wait on done or to listen
MainCallMetricsLoop ==
    /\ ~exited
    /\ mainPc = "main"
    /\ ~TokenMissing(getEnv("RH_OFFLINE_TOKEN", ""))
    /\ params' = EffectiveParams
    /\ client' = ClientFor(EffectiveParams.jsonUrl)
    /\ bgPc' = "loop"
    /\ mainPc' = MainAfterCall(exportToFile)
    /\ Bump("spawns")
    /\ UNCHANGED <<config, outside, procVars, serverStarted, recvErr, cycle, fetchVars, rangeVars,
                   doneMsg, gauges, file, requests>>

\* done is unbuffered: the send of the goroutine and err := <-done of main
\* happen together
DoneRendezvous ==
    /\ ~exited
    /\ mainPc = "recv"
    /\ bgPc = "send"
    /\ recvErr' = doneMsg
    /\ mainPc' = "check"
    /\ bgPc' = "return"
    /\ hist' = [hist EXCEPT !.sends = @ + 1, !.recvs = @ + 1]
    /\ UNCHANGED <<config, outside, procVars, serverStarted, params, client, cycle, fetchVars, rangeVars,
                   doneMsg, gauges, file, requests>>

\* variant that exits with status 0 whatever was received
ExitStatusZero(e) == 0

\* the status main exits with after err := <-done
ExitStatus(e) == IF e # "nil" THEN 1 ELSE 0

\* if err != nil { log.Fatal(err) }; os.Exit(0)
MainExit ==
    /\ ~exited
    /\ mainPc = "check"
    /\ exited' = TRUE
    /\ exitCode' = ExitStatus(recvErr)
    /\ mainPc' = "exited"
    /\ UNCHANGED <<config, outside, serverStarted, params, client, recvErr, bgPc, cycle, fetchVars, rangeVars,
                   doneMsg, gauges, file, requests, hist>>

\* http.Handle("/metrics", ...); http.ListenAndServe(":2112", nil); the listener
\* is taken to stay up once started
MainListen ==
    /\ ~exited
    /\ mainPc = "listen"
    /\ serverStarted' = TRUE
    /\ mainPc' = "serving"
    /\ UNCHANGED <<config, outside, procVars, params, client, recvErr, bgPc, cycle, fetchVars, rangeVars,
                   doneMsg, gauges, file, requests, hist>>

(***************************************************************************)
(* The goroutine of metricsLoop.                                           *)
(***************************************************************************)
\* top of the for loop: the package variable importUrl selects the source
BgLoop ==
    /\ ~exited
    /\ bgPc = "loop"
    /\ cycle < MaxCycles
    /\ cycle' = cycle + 1
    /\ requests' = <<>>
    /\ IF importUrl = ""
       THEN /\ offset' = 0
            /\ allSubs' = NilSlice
            /\ served' = <<>>
            /\ bgPc' = "get"
            /\ Bump("fetches")
            /\ UNCHANGED <<procVars, subs, err, fetchOpen, loopOpen, lastResp>>
       ELSE /\ served' = <<>>
            /\ UNCHANGED <<offset, allSubs, subs, err, fetchOpen, loopOpen, lastResp>>
            /\ IF URLParses(params.jsonUrl)
               THEN /\ bgPc' = "do"
                    /\ Bump("fetches")
                    /\ UNCHANGED procVars
               ELSE /\ Fatal
                    /\ hist' = [hist EXCEPT !.fetches = @ + 1, !.fatals = @ + 1]
                    /\ UNCHANGED bgPc
    /\ UNCHANGED <<config, outside, mainVars, rangeVars, doneMsg, gauges, file>>

\* variant that authenticates when either credential is given
UsesBasicAuthEither(user, pass) == user # "" \/ pass # ""

\* if jsonUser != "" && jsonPass != "" { req.SetBasicAuth(...) }
UsesBasicAuth(user, pass) == user # "" /\ pass # ""

\* client.Do(req)
ImportDo ==
    /\ ~exited
    /\ bgPc = "do"
    /\ requests' = Append(requests,
           Request(params.jsonUrl, <<>>, AuthOf(client, UsesBasicAuth(params.jsonUser, params.jsonPass))))
    /\ bgPc' = "do_resp"
    /\ UNCHANGED <<config, outside, mainVars, procVars, cycle, fetchVars, rangeVars, doneMsg, gauges, file, hist>>

\* variant that only looks at the transport
ImportErrorTransportOnly(r) == IF r.err THEN "request failed" ELSE ""

\* the failure of the import fetch, "" when the body decodes
ImportError(r) ==
    IF r.err THEN "request failed"
    ELSE IF r.readErr THEN "read failed"
         ELSE IF ~UnmarshalSubscriptions(r.doc).ok THEN "decode failed" ELSE ""

ImportResp ==
    /\ ~exited
    /\ bgPc = "do_resp"
    /\ \E r \in ImportResponses :
        /\ lastResp' = r
        /\ loopOpen' = IF r.err THEN loopOpen ELSE loopOpen + 1
        /\ IF ImportError(r) # ""
           THEN /\ Fatal
                /\ Bump("fatals")
                /\ UNCHANGED <<bgPc, subs, err, served>>
           ELSE /\ subs' = UnmarshalSubscriptions(r.doc).subs
                /\ served' = <<[body |-> UnmarshalSubscriptions(r.doc).subs.elems, pagination |-> NoPagination]>>
                /\ err' = ""
                /\ bgPc' = "fetched"
                /\ UNCHANGED <<procVars, hist>>
    /\ UNCHANGED <<config, outside, mainVars, cycle, offset, allSubs, fetchOpen, rangeVars,
                   doneMsg, gauges, file, requests>>

\* variant that goes on after a failed fetch
FetchFailedIgnored(e) == FALSE

\* if err != nil { log.Fatal(err) }
FetchFailed(e) == e # ""

\* variant that projects into the gauges in every mode
AfterFetchAlwaysProject(export) == "range"

\* if export != "" { ...; return } else the range loop
AfterFetch(export) == IF export # "" THEN "export" ELSE "range"

\* after the fetch: log.Fatal on a fetch error, else export or project
BgFetched ==
    /\ ~exited
    /\ bgPc = "fetched"
    /\ IF FetchFailed(err)
       THEN /\ Fatal
            /\ Bump("fatals")
            /\ UNCHANGED <<bgPc, idx>>
       ELSE /\ bgPc' = AfterFetch(params.export)
            /\ idx' = 1
            /\ UNCHANGED <<procVars, hist>>
    /\ UNCHANGED <<config, outside, mainVars, cycle, fetchVars, quantity, doneMsg, gauges, file, requests>>

\* json.MarshalIndent, os.WriteFile, and the value to send on done
BgExport ==
    /\ ~exited
    /\ bgPc = "export"
    /\ LET m == MarshalIndent(subs)
       IN  IF m.err
           THEN /\ doneMsg' = "marshal failed"
                /\ UNCHANGED <<file, hist>>
           ELSE \E ok \in BOOLEAN :
                /\ Bump("writes")
                /\ IF ok
                   THEN /\ file' = [written |-> TRUE, data |-> m.data]
                        /\ doneMsg' = "nil"
                   ELSE /\ file' \in {file, [written |-> TRUE, data |-> InvalidText]}
                        /\ doneMsg' = "write failed"
    /\ bgPc' = "send"
    /\ UNCHANGED <<config, outside, mainVars, procVars, cycle, fetchVars, rangeVars, gauges, requests>>

\* return after the send: the deferred resp.Body.Close() calls of the goroutine run
BgReturn ==
    /\ ~exited
    /\ bgPc = "return"
    /\ loopOpen' = 0
    /\ bgPc' = "returned"
    /\ UNCHANGED <<config, outside, mainVars, procVars, cycle, offset, allSubs, subs, err, fetchOpen, served,
                   lastResp, rangeVars, doneMsg, gauges, file, requests, hist>>

\* for _, s := range subs: strconv.ParseFloat(s.Quantity, 64); continue on error
BgRange ==
    /\ ~exited
    /\ bgPc = "range"
    /\ idx <= Len(subs.elems)
    /\ LET q == ParseFloat(subs.elems[idx].quantity)
       IN  IF q.err
           THEN /\ idx' = idx + 1
                /\ UNCHANGED <<bgPc, quantity>>
           ELSE /\ quantity' = q.val
                /\ bgPc' = "info"
                /\ UNCHANGED idx
    /\ UNCHANGED <<config, outside, mainVars, procVars, cycle, fetchVars, doneMsg, gauges, file, requests, hist>>

BgSetInfo ==
    /\ ~exited
    /\ bgPc = "info"
    /\ SubscriptionInfoGauge' = SetGauge(SubscriptionInfoGauge, InfoLabels(subs.elems[idx]), <<1, 1>>)
    /\ bgPc' = "quantity"
    /\ UNCHANGED <<config, outside, mainVars, procVars, cycle, fetchVars, rangeVars, doneMsg,
                   SubscriptionQuantityGauge, SubscriptionStartGauge, SubscriptionEndGauge,
                   file, requests, hist>>

BgSetQuantity ==
    /\ ~exited
    /\ bgPc = "quantity"
    /\ SubscriptionQuantityGauge' =
           SetGauge(SubscriptionQuantityGauge, subs.elems[idx].subscriptionNumber, quantity)
    /\ bgPc' = "start"
    /\ UNCHANGED <<config, outside, mainVars, procVars, cycle, fetchVars, rangeVars, doneMsg,
                   SubscriptionInfoGauge, SubscriptionStartGauge, SubscriptionEndGauge,
                   file, requests, hist>>

BgSetStart ==
    /\ ~exited
    /\ bgPc = "start"
    /\ SubscriptionStartGauge' =
           SetGauge(SubscriptionStartGauge, subs.elems[idx].subscriptionNumber,
                    Float64(Unix(subs.elems[idx].startDate)))
    /\ bgPc' = "end"
    /\ UNCHANGED <<config, outside, mainVars, procVars, cycle, fetchVars, rangeVars, doneMsg,
                   SubscriptionInfoGauge, SubscriptionQuantityGauge, SubscriptionEndGauge,
                   file, requests, hist>>

BgSetEnd ==
    /\ ~exited
    /\ bgPc = "end"
    /\ SubscriptionEndGauge' =
           SetGauge(SubscriptionEndGauge, subs.elems[idx].subscriptionNumber,
                    Float64(Unix(subs.elems[idx].endDate)))
    /\ idx' = idx + 1
    /\ bgPc' = "range"
    /\ UNCHANGED <<config, outside, mainVars, procVars, cycle, fetchVars, quantity, doneMsg,
                   SubscriptionInfoGauge, SubscriptionQuantityGauge, SubscriptionStartGauge,
                   file, requests, hist>>

\* the range loop is over: time.Sleep(interval seconds)
BgSleep ==
    /\ ~exited
    /\ bgPc = "range"
    /\ idx > Len(subs.elems)
    /\ bgPc' = "sleeping"
    /\ Bump("sleeps")
    /\ UNCHANGED <<config, outside, mainVars, procVars, cycle, fetchVars, rangeVars, doneMsg, gauges, file, requests>>

\* the sleep is over: back to the top of the loop
BgWake ==
    /\ ~exited
    /\ bgPc = "sleeping"
    /\ bgPc' = "loop"
    /\ UNCHANGED <<config, outside, mainVars, procVars, cycle, fetchVars, rangeVars, doneMsg, gauges, file,
                   requests, hist>>

Next ==
    \/ MainNoToken
    \/ MainCallMetricsLoop
    \/ DoneRendezvous
    \/ MainExit
    \/ MainListen
    \/ BgLoop
    \/ FetchGet
    \/ FetchResp
    \/ ImportDo
    \/ ImportResp
    \/ BgFetched
    \/ BgExport
    \/ BgReturn
    \/ BgRange
    \/ BgSetInfo
    \/ BgSetQuantity
    \/ BgSetStart
    \/ BgSetEnd
    \/ BgSleep
    \/ BgWake

Spec == Init /\ [][Next]_vars

(***************************************************************************)
(* The process in serve mode with an import URL, and a scraper of its      *)
(* /metrics endpoint.  The handler reads the four gauge vectors as they    *)
(* are when the request is served; here it reads them in one step, which   *)
(* is the least a scrape can be torn.                                      *)
(***************************************************************************)
\* variant in which a scrape waits for the projection pass to end
ScrapeBetweenPasses(started, pc) == started /\ pc \notin {"info", "quantity", "start", "end"}

\* the handler is served whenever the listener runs, wherever the goroutine is
ScrapeAllowed(started, pc) == started

Scrape ==
    /\ ~exited
    /\ ScrapeAllowed(serverStarted, bgPc)
    /\ scraped' = [taken    |-> TRUE,
                   info     |-> SubscriptionInfoGauge,
                   quantity |-> SubscriptionQuantityGauge,
                   start    |-> SubscriptionStartGauge,
                   end      |-> SubscriptionEndGauge]
    /\ UNCHANGED <<config, listLen, mainVars, procVars, bgPc, cycle, fetchVars, rangeVars, doneMsg, gauges,
                   file, requests, hist>>

InitScrape == Start(Config("offline-token", "", "http://mirror/subs.json", "", "", NoEnv), 0)

NextScrape ==
    \/ MainCallMetricsLoop
    \/ MainListen
    \/ BgLoop
    \/ ImportDo
    \/ ImportResp
    \/ BgFetched
    \/ BgRange
    \/ BgSetInfo
    \/ BgSetQuantity
    \/ BgSetStart
    \/ BgSetEnd
    \/ BgSleep
    \/ BgWake
    \/ Scrape

SpecScrape == InitScrape /\ [][NextScrape]_vars

(***************************************************************************)
(* The live API as a well-behaved server: it holds a fixed list of         *)
(* listLen records with pairwise distinct subscription numbers and answers *)
(* a request (limit, offset) with the records offset+1 .. offset+limit of  *)
(* the list.  The process runs in serve mode against it, up to the end of  *)
(* its first fetch.                                                        *)
(***************************************************************************)
ListLens == 0..(Limit * MaxPages - 1)

ListRec(i) == [RecAt(1, i) EXCEPT !.subscriptionNumber = ToString(i)]

ListResponse(query) ==
    LET lo == query[2]
        hi == IF query[2] + query[1] < listLen THEN query[2] + query[1] ELSE listLen
        n  == IF hi > lo THEN hi - lo ELSE 0
    IN  Response(FALSE, FALSE,
                 ObjectDoc(0, "", MkSlice([k \in 1..n |-> ListRec(lo + k)]),
                           [count |-> n, limit |-> query[1], offset |-> lo]))

ListResp == FetchRespFrom({ListResponse(requests[Len(requests)].query)})

InitList == \E n \in ListLens : Start(Config("offline-token", "", "", "", "", NoEnv), n)

NextList ==
    \/ MainCallMetricsLoop
    \/ MainListen
    \/ BgLoop
    \/ FetchGet
    \/ ListResp
    \/ BgFetched

SpecList == InitList /\ [][NextList]_vars

TypeOK ==
    /\ bgPc \in {"none", "loop", "get", "resp", "do", "do_resp", "fetched", "export", "send",
                 "return", "returned", "range", "info", "quantity", "start", "end", "sleeping"}
    /\ mainPc \in {"main", "recv", "check", "listen", "serving", "exited"}
    /\ cycle \in 0..MaxCycles
    /\ exitCode \in {0, 1}

(***************************************************************************)
(* Properties.                                                             *)
(***************************************************************************)
\* the records the export file holds
FileRecords == UnmarshalSubscriptions(ReadJSON(file.data)).subs.elems

RECURSIVE Flatten(_)
Flatten(pages) == IF pages = <<>> THEN <<>> ELSE Head(pages).body \o Flatten(Tail(pages))

\* the goroutine is inside or past a call of FetchAllSubscriptions of this cycle
InLiveCycle == importUrl = "" /\ bgPc \notin {"none", "loop"}

\* C1: FetchAllSubscriptions requests limit=50 and the offsets 0, 50, 100, ...
\* in order, goes on after every page of at least 50 records, stops at the
\* first page of fewer than 50 records whatever its pagination metadata says,
\* and returns the records of all requested pages concatenated in request order.
C1_PaginationContract ==
    InLiveCycle =>
        /\ \A k \in 1..Len(requests) :
              /\ requests[k].target = "api"
              /\ requests[k].query = <<50, 50 * (k - 1)>>
        /\ bgPc = "get" =>
              /\ Len(requests) = Len(served)
              /\ \A k \in 1..Len(served) : Len(served[k].body) >= 50
        /\ bgPc = "resp" =>
              /\ Len(requests) = Len(served) + 1
              /\ \A k \in 1..Len(served) : Len(served[k].body) >= 50
        /\ (bgPc \notin {"get", "resp"} /\ err = "") =>
              /\ Len(served) >= 1
              /\ Len(requests) = Len(served)
              /\ \A k \in 1..(Len(served) - 1) : Len(served[k].body) >= 50
              /\ Len(served[Len(served)].body) < 50
              /\ subs.elems = Flatten(served)

\* a fetch of two pages has returned: the first page was full and its
\* metadata reported no records, the second was short and its metadata
\* reported a full page
C1_Witness ==
    /\ importUrl = ""
    /\ bgPc = "fetched"
    /\ err = ""
    /\ Len(served) = 2
    /\ Len(served[1].body) = 50
    /\ served[1].pagination.count = 0
    /\ Len(served[2].body) = 49
    /\ served[2].pagination.count = 50
    /\ Len(subs.elems) = 99

\* C2: when page k fails (transport error, undecodable body, error envelope
\* with a message) the call returns the error with a nil record list, none
\* of the records of pages 0..k-1, and no request follows page k; nothing of
\* the failed call reaches the gauges or the export file.
C2_FailureInv ==
    (importUrl = "" /\ err # "") =>
        /\ bgPc = "fetched"
        /\ subs = NilSlice
        /\ Len(requests) = Len(served) + 1

C2_NoPartialResults ==
    /\ []C2_FailureInv
    /\ [][(importUrl = "" /\ err' # "") => UNCHANGED <<requests, gauges, file, subs>> \/ err = ""]_vars

\* the second page is an error envelope while 50 records of the first page
\* were already accumulated
C2_Witness ==
    /\ importUrl = ""
    /\ bgPc = "fetched"
    /\ err = "API error"
    /\ Len(allSubs.elems) = 50
    /\ Len(served) = 1
    /\ subs = NilSlice

\* the goroutine runs in export mode / in serve mode
ExportMode == bgPc # "none" /\ params.export # ""

ServeMode == bgPc # "none" /\ params.export = ""

NoSeries ==
    /\ DOMAIN SubscriptionInfoGauge = {}
    /\ DOMAIN SubscriptionQuantityGauge = {}
    /\ DOMAIN SubscriptionStartGauge = {}
    /\ DOMAIN SubscriptionEndGauge = {}

\* C3: in export mode the goroutine fetches once, writes the whole fetched
\* record list to the export file once, sets no gauge, does not sleep, starts
\* no second cycle, and the HTTP metrics server is not started.
C3_ExportOneShot ==
    ExportMode =>
        /\ cycle <= 1
        /\ hist.fetches <= 1
        /\ hist.writes <= 1
        /\ hist.sleeps = 0
        /\ NoSeries
        /\ ~serverStarted
        /\ bgPc \notin {"range", "info", "quantity", "start", "end", "sleeping"}
        /\ bgPc \in {"send", "return", "returned"} => (hist.fetches = 1 /\ hist.writes = 1)
        /\ doneMsg = "nil" =>
              /\ file.written
              /\ file.data.kind \in {"array", "null"}
              /\ FileRecords = Flatten(served)
              /\ Len(requests) = IF importUrl = "" THEN Len(served) ELSE 1

\* the export has completed with status 0 and the file holds all 99 fetched
\* records, some of them with a quantity that is not a number
C3_Witness ==
    /\ ExportMode
    /\ exited
    /\ exitCode = 0
    /\ file.written
    /\ Len(FileRecords) = 99
    /\ \E i \in 1..99 : FileRecords[i].quantity = <<"a", "b", "c">>
    /\ hist.fetches = 1
    /\ hist.writes = 1

\* C4 as claimed: in export mode the completion signal is sent exactly once
\* and the process terminates only after main has received it.
C4_SignalsExactlyOnce ==
    (ExportMode /\ exited) => (hist.sends = 1 /\ hist.recvs = 1 /\ mainPc = "exited")

\* C4, amended: in export mode the completion signal is sent at most once;
\* it is sent exactly when the fetch succeeded, carries success or the
\* serialize or write error, and main then exits with status 0 on success and
\* 1 on an error; a failed fetch terminates the process from the goroutine
\* with status 1 and no signal; no export file is written when the fetch failed.
C4_ExportCompletion ==
    ExportMode =>
        /\ hist.sends <= 1
        /\ hist.recvs = hist.sends
        /\ hist.sends = 1 =>
              /\ err = ""
              /\ hist.fatals = 0
              /\ Len(served) >= 1
              /\ recvErr = doneMsg
              /\ doneMsg \in {"nil", "marshal failed", "write failed"}
        /\ (hist.fatals > 0 \/ err # "") => (~file.written /\ hist.writes = 0 /\ hist.sends = 0)
        /\ exited =>
              \/ /\ mainPc = "exited"
                 /\ hist.sends = 1
                 /\ recvErr = "nil" => (exitCode = 0 /\ file.written /\ FileRecords = Flatten(served))
                 /\ recvErr # "nil" => exitCode = 1
              \/ /\ mainPc = "recv"
                 /\ hist.sends = 0
                 /\ hist.fatals = 1
                 /\ exitCode = 1
                 /\ bgPc \in {"loop", "do_resp", "fetched"}

\* the second page of the fetch failed: the process is gone with status 1,
\* main never received a signal and there is no export file
C4_Witness ==
    /\ ExportMode
    /\ exited
    /\ exitCode = 1
    /\ err = "decode failed"
    /\ Len(served) = 1
    /\ hist.sends = 0
    /\ mainPc = "recv"
    /\ ~file.written

\* the steps of the goroutine
BgStep ==
    \/ BgLoop \/ FetchGet \/ FetchResp \/ ImportDo \/ ImportResp \/ BgFetched
    \/ BgRange \/ BgSetInfo \/ BgSetQuantity \/ BgSetStart \/ BgSetEnd \/ BgSleep \/ BgWake

\* the order of the goroutine's positions in serve mode: fetch, project, sleep, fetch, ...
ServeOrder ==
    {<<"loop", "get">>, <<"get", "resp">>, <<"resp", "get">>, <<"resp", "fetched">>,
     <<"loop", "do">>, <<"do", "do_resp">>, <<"do_resp", "fetched">>,
     <<"fetched", "range">>,
     <<"range", "info">>, <<"info", "quantity">>, <<"quantity", "start">>, <<"start", "end">>,
     <<"end", "range">>, <<"range", "sleeping">>,
     <<"sleeping", "loop">>}

ProjectPcs == {"range", "info", "quantity", "start", "end"}

C5_ServeInv ==
    ServeMode =>
        /\ bgPc \notin {"export", "send", "return", "returned"}
        /\ hist.writes = 0 /\ hist.sends = 0
        /\ (bgPc \in {"loop", "sleeping"} /\ ~exited) => (hist.sleeps = cycle /\ hist.fetches = cycle)
        /\ (bgPc \notin {"loop", "sleeping"}) => (hist.sleeps = cycle - 1 /\ hist.fetches = cycle)
        /\ exited <=> hist.fatals = 1
        /\ exited => exitCode = 1
        /\ err # "" => bgPc = "fetched"
        \* below the bounds of the model the goroutine can always take its next step
        /\ (/\ ~exited
            /\ ~(bgPc = "loop" /\ cycle >= MaxCycles)
            /\ ~(bgPc = "get" /\ offset \div 50 >= MaxPages)) => ENABLED BgStep

C5_ServeStep ==
    ServeMode =>
        /\ bgPc' # bgPc => <<bgPc, bgPc'>> \in ServeOrder
        /\ (bgPc = "fetched" /\ bgPc' = "range") => err = ""
        /\ (bgPc = "range" /\ bgPc' = "sleeping") => idx = Len(subs.elems) + 1
        /\ (bgPc = "fetched" /\ err # "") =>
              \/ exited' /\ exitCode' = 1 /\ UNCHANGED <<bgPc, requests, gauges, cycle>>
              \/ UNCHANGED <<bgPc, requests, gauges, cycle, exited>>
        /\ requests' # requests =>
              \/ bgPc \in {"get", "do"} /\ Len(requests') = Len(requests) + 1
              \/ bgPc = "loop" /\ cycle' = cycle + 1 /\ requests' = <<>>
        /\ gauges' # gauges => bgPc \in ProjectPcs
        /\ exited => UNCHANGED vars

IsNumberText(text) ==
    text \in {<<"1", "0">>, <<"3", ".", "5">>, <<"-", "2">>, <<".", "5">>}

ExpectedQuantity(text) ==
    CASE text = <<"1", "0">> -> <<10, 1>>
      [] text = <<"3", ".", "5">> -> <<7, 2>>
      [] text = <<"-", "2">> -> <<-2, 1>>
      [] text = <<".", "5">> -> <<1, 2>>
      [] OTHER -> <<0, 0>>

\* the record the range loop is at
Cur == subs.elems[idx]

C6_SkipStep ==
    (bgPc = "range" /\ idx <= Len(subs.elems) /\ <<bgPc, idx>>' # <<bgPc, idx>>) =>
        IF IsNumberText(Cur.quantity)
        THEN bgPc' = "info" /\ idx' = idx /\ quantity' = ExpectedQuantity(Cur.quantity)
        ELSE /\ UNCHANGED gauges
             /\ bgPc' = "range"
             /\ idx' = idx + 1
             /\ UNCHANGED <<exited, exitCode, err, hist>>

C6_RecordDone ==
    (bgPc = "end" /\ bgPc' = "range") =>
        /\ idx' = idx + 1
        /\ InfoLabels(Cur) \in DOMAIN SubscriptionInfoGauge'
        /\ SubscriptionInfoGauge'[<<Cur.contractNumber, Cur.subscriptionNumber,
                                     Cur.subscriptionName, Cur.status, Cur.sku>>] = <<1, 1>>
        /\ SubscriptionQuantityGauge'[Cur.subscriptionNumber] = ExpectedQuantity(Cur.quantity)
        /\ SubscriptionStartGauge'[Cur.subscriptionNumber] = <<Cur.startDate.sec, 1>>
        /\ SubscriptionEndGauge'[Cur.subscriptionNumber] = <<Cur.endDate.sec, 1>>

\* C6: in a projection pass a record whose quantity is not a number changes
\* no gauge and raises no error, and the pass goes on with the next record; a
\* record whose quantity is a number gets its four gauges set: info to 1,
\* quantity to the number, start and end to the epoch seconds of its dates.
C6_Projection ==
    /\ [](bgPc \in {"info", "quantity", "start", "end"} => IsNumberText(Cur.quantity))
    /\ [][C6_SkipStep /\ C6_RecordDone]_vars

\* first cycle, records 1..4 done: the two with a number set the series of
\* subscription 1002, the two without left subscription 1001 with no series
C6_Witness ==
    /\ ServeMode
    /\ cycle = 1
    /\ bgPc = "range"
    /\ idx = 5
    /\ ~IsNumberText(subs.elems[2].quantity)
    /\ ~IsNumberText(subs.elems[4].quantity)
    /\ subs.elems[4].subscriptionNumber = "1001"
    /\ DOMAIN SubscriptionQuantityGauge = {"1002"}
    /\ SubscriptionQuantityGauge["1002"] = <<-2, 1>>
    /\ DOMAIN SubscriptionStartGauge = {"1002"}
    /\ Cardinality(DOMAIN SubscriptionInfoGauge) = 1

\* gauge g keeps every series; a series changes its value only while the
\* range loop is at a record with the labels k
KeepsSeries(g, gNext, labelsOfCur(_)) ==
    /\ DOMAIN g \subseteq DOMAIN gNext
    /\ \A k \in DOMAIN g :
          gNext[k] # g[k] => (bgPc \in ProjectPcs /\ idx <= Len(subs.elems) /\ k = labelsOfCur(Cur))

NumberOf(s) == s.subscriptionNumber

FullLabelsOf(s) == <<s.contractNumber, s.subscriptionNumber, s.subscriptionName, s.status, s.sku>>

C7_Step ==
    /\ KeepsSeries(SubscriptionInfoGauge, SubscriptionInfoGauge', FullLabelsOf)
    /\ KeepsSeries(SubscriptionQuantityGauge, SubscriptionQuantityGauge', NumberOf)
    /\ KeepsSeries(SubscriptionStartGauge, SubscriptionStartGauge', NumberOf)
    /\ KeepsSeries(SubscriptionEndGauge, SubscriptionEndGauge', NumberOf)

\* C7: over the serve-mode cycles no gauge loses a label combination, and a
\* series whose labels are absent from a later fetch keeps its last value: a
\* record whose status changed leaves its old info series at 1 next to the new one.
C7_SeriesNeverShrink ==
    /\ [][C7_Step]_vars
    /\ [](\A k \in DOMAIN SubscriptionInfoGauge : SubscriptionInfoGauge[k] = <<1, 1>>)

\* after the second cycle, whose fetch had only Expired records, subscription
\* 1002 has the Active info series of the first cycle and the new Expired one
C7_Witness ==
    /\ ServeMode
    /\ cycle = 2
    /\ bgPc = "sleeping"
    /\ Len(subs.elems) > 0
    /\ \A i \in 1..Len(subs.elems) : subs.elems[i].status = "Expired"
    /\ <<"C7", "1002", "RHEL", "Active", "RH001">> \in DOMAIN SubscriptionInfoGauge
    /\ <<"C7", "1002", "RHEL", "Expired", "RH001">> \in DOMAIN SubscriptionInfoGauge
    /\ SubscriptionInfoGauge[<<"C7", "1002", "RHEL", "Active", "RH001">>] = <<1, 1>>

\* the value the README gives a setting: the environment variable when set, else the flag
Override(name, flag) == IF environ[name] # "" THEN environ[name] ELSE flag

\* C8: the export path, import URL, import username and import password in
\* effect are the environment variables RH_EXPORT_FILE, RH_IMPORT_URL,
\* RH_IMPORT_USERNAME and RH_IMPORT_PASSWORD when set, the flags otherwise.
C8_EnvOverridesFlags ==
    bgPc # "none" =>
        /\ params.export = Override("RH_EXPORT_FILE", exportToFile)
        /\ params.jsonUrl = Override("RH_IMPORT_URL", importUrl)
        /\ params.jsonUser = Override("RH_IMPORT_USERNAME", importUsername)
        /\ params.jsonPass = Override("RH_IMPORT_PASSWORD", importPassword)

\* C9: without the offline token the process exits with status 1 and starts
\* nothing: no client and token exchange, no request, no export file, no
\* HTTP metrics server, in every mode.
C9_NoTokenNoStart ==
    environ.RH_OFFLINE_TOKEN = "" =>
        /\ bgPc = "none"
        /\ client = "none"
        /\ requests = <<>>
        /\ ~file.written
        /\ hist.fetches = 0
        /\ ~serverStarted
        /\ NoSeries
        /\ mainPc \in {"main", "exited"}
        /\ mainPc = "exited" <=> exited
        /\ exited => exitCode = 1
        /\ ~exited => (ENABLED MainNoToken /\ ~ENABLED MainCallMetricsLoop)

\* started with an import URL and an export path but no token: exited with 1
C9_Witness ==
    /\ environ.RH_OFFLINE_TOKEN = ""
    /\ importUrl = "http://mirror/subs.json"
    /\ exportToFile # ""
    /\ exited
    /\ exitCode = 1
    /\ requests = <<>>

\* C10: the import request carries basic authentication exactly when the
\* import username and the import password are both non-empty, and no
\* Authorization header otherwise.
C10_BasicAuthIffBoth ==
    \A k \in 1..Len(requests) :
        requests[k].target # "api" =>
            /\ requests[k].target = importUrl
            /\ requests[k].query = <<>>
            /\ requests[k].auth = IF importUsername # "" /\ importPassword # "" THEN "basic" ELSE "none"

\* an import request went out without authentication although a username was given
C10_Witness ==
    /\ Len(requests) >= 1
    /\ requests[1].target = "http://mirror/subs.json"
    /\ importUsername = "user"
    /\ importPassword = ""
    /\ requests[1].auth = "none"

\* the last page accepted by the fetch in progress
LastServed == served[Len(served)]

C11_ReturnStep ==
    (importUrl = "" /\ bgPc = "resp" /\ bgPc' # "resp") =>
        \/ \* the page failed: the call returns the error
           /\ err' # ""
           /\ bgPc' = "fetched"
           /\ UNCHANGED <<served, offset>>
        \/ \* the page is short: the call returns
           /\ err' = ""
           /\ Len(served') = Len(served) + 1
           /\ Len(served'[Len(served')].body) < 50
           /\ bgPc' = "fetched"
           /\ UNCHANGED offset
        \/ \* the page is full: the next request follows, at a larger offset
           /\ err' = ""
           /\ Len(served') = Len(served) + 1
           /\ Len(served'[Len(served')].body) >= 50
           /\ bgPc' = "get"
           /\ offset' = offset + 50

C11_LoopInv ==
    (importUrl = "" /\ bgPc = "get" /\ ~exited) =>
        /\ offset = 50 * Len(served)
        /\ \A k \in 1..Len(served) : Len(served[k].body) >= 50
        \* whatever the number of pages behind it, the next request goes out
        /\ Len(served) < MaxPages => ENABLED FetchGet

\* C11: FetchAllSubscriptions has no cap on the number of pages: after every
\* page of at least 50 records it requests the next, larger offset, and it
\* returns exactly when a page is short, is an error envelope, or fails in
\* transport or decoding.
C11_NoPageCap == []C11_LoopInv /\ [][C11_ReturnStep]_vars

\* two full pages are behind the call and it is about to request offset 100
C11_Witness ==
    /\ importUrl = ""
    /\ ~exited
    /\ bgPc = "get"
    /\ Len(served) = 2
    /\ Len(served[1].body) >= 50
    /\ Len(served[2].body) >= 50
    /\ offset = 100
    /\ err = ""

\* the positions of the goroutine in export mode before its send
BeforeSend == {"loop", "get", "resp", "do", "do_resp", "fetched", "export"}

C12_Inv ==
    \* metricsLoop is called once, and the goroutine exists from that call on
    /\ hist.spawns <= 1
    /\ bgPc # "none" <=> hist.spawns = 1
    /\ ExportMode =>
          \* main waits on done from the call on, until the send
          /\ (bgPc \notin {"return", "returned"}) => mainPc = "recv"
          /\ (bgPc \in {"return", "returned"}) => mainPc \in {"check", "exited"}
          \* a send finds its receiver
          /\ (bgPc = "send" /\ ~exited) => ENABLED DoneRendezvous
          /\ hist.sends <= 1
          /\ hist.recvs = hist.sends
    /\ ServeMode =>
          /\ mainPc \in {"listen", "serving"}
          /\ bgPc \notin {"export", "send", "return", "returned"}
          /\ hist.sends = 0
          /\ hist.recvs = 0
    \* main waits for the goroutine only at its receive, and then the goroutine
    \* is at a position before its send, where it does not wait for main
    /\ (mainPc = "recv" /\ ~exited) => bgPc \in BeforeSend \cup {"send"}
    \* after the rendezvous neither waits for the other
    /\ (mainPc = "check" /\ ~exited) => ENABLED MainExit
    /\ (bgPc = "return" /\ ~exited) => ENABLED BgReturn

C12_Step ==
    \* a request leaves only when none is awaiting its response
    /\ Len(requests') > Len(requests) =>
          (bgPc \in {"get", "do"} /\ bgPc' \in {"resp", "do_resp"} /\ Len(requests') = Len(requests) + 1)
    /\ (bgPc \in {"resp", "do_resp"}) => requests' = requests
    \* a cycle begins only at the top of the loop, after the sleep of the one before
    /\ cycle' # cycle =>
          (bgPc = "loop" /\ cycle' = cycle + 1 /\ (cycle > 0 => hist.sleeps = cycle))

\* C12: metricsLoop starts one goroutine; it has at most one request awaiting
\* its response and begins a cycle only after the one before; in export mode
\* main waits on done and a send is always received, in serve mode nothing
\* sends or receives on done, and the two never block each other.
C12_OneTaskNoDeadlock == []C12_Inv /\ [][C12_Step]_vars

\* export mode: the goroutine is at its send after a failed write and main is waiting
C12_Witness ==
    /\ ExportMode
    /\ ~exited
    /\ bgPc = "send"
    /\ mainPc = "recv"
    /\ doneMsg = "write failed"
    /\ hist.spawns = 1
    /\ Len(requests) = 2

ImportMode == importUrl # "" /\ bgPc # "none"

\* the response is one the import fetch cannot take a record list from
ImportFailure(r) == r.err \/ r.readErr \/ r.doc.kind \notin {"array", "null"}

C13_Inv ==
    ImportMode =>
        \* one request per cycle, to the import URL, without a query
        /\ Len(requests) <= 1
        /\ \A k \in 1..Len(requests) :
              requests[k].target = importUrl /\ requests[k].query = <<>>
        /\ (bgPc \notin {"loop", "do"}) => Len(requests) = 1
        \* FetchAllSubscriptions and its envelope check take no part
        /\ offset = 0
        /\ allSubs = NilSlice
        /\ err = ""
        \* past the fetch, the records are the whole body of a response that did not fail
        /\ (bgPc \notin {"loop", "do", "do_resp"}) =>
              /\ ~ImportFailure(lastResp)
              /\ subs = (IF lastResp.doc.kind = "array" THEN lastResp.doc.body ELSE NilSlice)

C13_Step ==
    ImportMode =>
        \* the response is handled: a failed one ends the process there, any other is taken
        /\ (bgPc = "do_resp" /\ ~exited /\ (bgPc' # "do_resp" \/ exited')) =>
              /\ ImportFailure(lastResp') <=> exited'
              /\ ~ImportFailure(lastResp') <=> bgPc' = "fetched"
        \* and the failing cycle leaves the gauges, the file and the records as they were
        /\ (~exited /\ exited' /\ bgPc \in {"loop", "do_resp"}) =>
              /\ exitCode' = 1
              /\ hist'.fatals = 1
              /\ bgPc' = bgPc
              /\ UNCHANGED <<gauges, file, subs, doneMsg>>

\* C13: in import mode a cycle issues one GET to the import URL, without
\* limit or offset and without the error-envelope check, and takes the whole
\* body as the record list; a request, read or decode failure ends the cycle
\* at once, with no gauge set and no file written from it.
C13_ImportFetch == []C13_Inv /\ [][C13_Step]_vars

\* the second cycle's import answered with an error envelope: the process is
\* gone, the gauges hold what the first cycle set
C13_Witness ==
    /\ ImportMode
    /\ exited
    /\ bgPc = "do_resp"
    /\ cycle = 2
    /\ lastResp.doc.kind = "object"
    /\ lastResp.doc.message = "denied"
    /\ hist.fatals = 1
    /\ Len(requests) = 1
    /\ DOMAIN SubscriptionQuantityGauge # {}
    /\ ~file.written

\* the export file served back as the body of an import fetch
FileAsResponse == Response(FALSE, FALSE, ReadJSON(file.data))

\* C14: the JSON that export mode writes, served back as the response body of
\* an import fetch, is accepted and decodes to a record list equal to the
\* exported one in every field, times and pool lists included, the nil and
\* the empty list too.
C14_RoundTrip ==
    (file.written /\ doneMsg = "nil") =>
        /\ ImportError(FileAsResponse) = ""
        /\ UnmarshalSubscriptions(FileAsResponse.doc).subs = subs

\* a list of 99 records was exported, among them times with nanoseconds and a
\* zone offset, and nil, empty and two-element pool lists
C14_Witness ==
    /\ file.written
    /\ doneMsg = "nil"
    /\ Len(subs.elems) = 99
    /\ Len(file.data.elems) = 99
    /\ \E i \in 1..99 :
          /\ subs.elems[i].endDate.nsec = 500
          /\ subs.elems[i].startDate.off = 120
          /\ file.data.elems[i].endDate.frac = <<"0", "0", "0", "0", "0", "0", "5">>
          /\ file.data.elems[i].startDate.wall = subs.elems[i].startDate.sec + 7200
    /\ \E i \in 1..99 : subs.elems[i].pools.isNil
    /\ \E i \in 1..99 : ~subs.elems[i].pools.isNil /\ Len(subs.elems[i].pools.elems) = 0
    /\ \E i \in 1..99 : Len(subs.elems[i].pools.elems) = 2

\* the list the remote side holds
RemoteList == [i \in 1..listLen |-> ListRec(i)]

\* C15: against a server that holds a list of records with pairwise distinct
\* subscription numbers and answers (limit=50, offset=n) with the records
\* n+1 .. n+50 of it, one fetch returns exactly the list, every record once
\* and in order, with floor(length/50)+1 requests, the last of which returns
\* length mod 50 records.
C15_FixedList ==
    /\ (bgPc \in {"get", "resp"}) =>
          /\ offset <= listLen
          /\ allSubs.elems = SubSeq(RemoteList, 1, offset)
    /\ (bgPc \in {"fetched", "range"}) =>
          /\ err = ""
          /\ subs.elems = RemoteList
          /\ Cardinality({subs.elems[i].subscriptionNumber : i \in 1..Len(subs.elems)}) = listLen
          /\ Len(requests) = (listLen \div 50) + 1
          /\ \A k \in 1..Len(requests) : requests[k].query = <<50, 50 * (k - 1)>>
          /\ Len(LastServed.body) = listLen % 50

\* a list of 50 records: the second request, at offset 50, returns no record
C15_Witness ==
    /\ listLen = 50
    /\ bgPc = "fetched"
    /\ err = ""
    /\ Len(requests) = 2
    /\ requests[2].query = <<50, 50>>
    /\ Len(served[1].body) = 50
    /\ Len(served[2].body) = 0
    /\ subs.elems = RemoteList

\* the last record of subs among the first k that carries number n and a
\* quantity that is a number; 0 when there is none
RECURSIVE LastProjected(_, _)
LastProjected(n, k) ==
    IF k = 0 THEN 0
    ELSE IF subs.elems[k].subscriptionNumber = n /\ IsNumberText(subs.elems[k].quantity) THEN k
    ELSE LastProjected(n, k - 1)

\* the records of subs the pass in progress is done with
DoneCount == IF bgPc = "sleeping" THEN Len(subs.elems) ELSE idx - 1

C16_Inv ==
    (ServeMode /\ bgPc \in {"range", "sleeping"}) =>
        \A m \in 1..Len(SubscriptionNumbers) :
            LET n    == SubscriptionNumbers[m]
                last == LastProjected(n, DoneCount)
                r    == subs.elems[last]
            IN  last > 0 =>
                    /\ SubscriptionQuantityGauge[n] = ExpectedQuantity(r.quantity)
                    /\ SubscriptionStartGauge[n] = <<r.startDate.sec, 1>>
                    /\ SubscriptionEndGauge[n] = <<r.endDate.sec, 1>>

\* a series of g that is new or has a new value is the one of the record at
\* hand, and its value is v whatever the value before
Overwrites(g, gNext, v) ==
    \A n \in DOMAIN gNext :
        (n \notin DOMAIN g \/ gNext[n] # g[n]) =>
            /\ bgPc \in ProjectPcs
            /\ n = Cur.subscriptionNumber
            /\ gNext[n] = v

C16_Step ==
    /\ Overwrites(SubscriptionQuantityGauge, SubscriptionQuantityGauge', ExpectedQuantity(Cur.quantity))
    /\ Overwrites(SubscriptionStartGauge, SubscriptionStartGauge', <<Cur.startDate.sec, 1>>)
    /\ Overwrites(SubscriptionEndGauge, SubscriptionEndGauge', <<Cur.endDate.sec, 1>>)

\* C16: the quantity, start and end gauge of a subscription number hold the
\* values of the last projected record with that number and a quantity that is
\* a number: a later record overwrites an earlier one, within a cycle and
\* across cycles, and no value is computed from the value before.
C16_LastWriteWins == []C16_Inv /\ [][C16_Step]_vars

\* end of the second pass: subscription 1002 was set three times in this pass
\* and holds the value of the last record, subscription 1001 has no record with
\* a number in this pass and holds what the first pass set
C16_Witness ==
    /\ ServeMode
    /\ cycle = 2
    /\ bgPc = "sleeping"
    /\ Len(subs.elems) = 5
    /\ LastProjected("1001", 5) = 0
    /\ "1001" \in DOMAIN SubscriptionQuantityGauge
    /\ LastProjected("1002", 5) = 5
    /\ LastProjected("1002", 4) = 3
    /\ LastProjected("1002", 2) = 1
    /\ subs.elems[1].quantity # subs.elems[5].quantity
    /\ SubscriptionQuantityGauge["1002"] = ExpectedQuantity(subs.elems[5].quantity)

\* the scrape returned the gauges as they are now
ScrapedNow ==
    /\ scraped.taken
    /\ scraped.info = SubscriptionInfoGauge
    /\ scraped.quantity = SubscriptionQuantityGauge
    /\ scraped.start = SubscriptionStartGauge
    /\ scraped.end = SubscriptionEndGauge

C17_Step ==
    scraped' # scraped =>
        /\ serverStarted
        /\ ScrapedNow'
        /\ UNCHANGED <<gauges, bgPc, idx, subs, cycle>>

\* C17: a scrape is served at any position of the projection pass, between
\* any two gauge updates, and returns the gauges as they are at that moment,
\* so it can see a record's info series next to values of the cycle before
\* and some records of the cycle updated and others not.
C17_ScrapeInterleaves ==
    /\ []((serverStarted /\ ~exited) => ENABLED Scrape)
    /\ [][C17_Step]_vars

\* second pass, fifth record, after its info series was set and before its
\* quantity: the scrape holds the info series of the record, the quantity and
\* the end of its number as the first pass left them, and the values of this
\* pass for the number of the fourth record
C17_Witness ==
    /\ ScrapedNow
    /\ cycle = 2
    /\ bgPc = "quantity"
    /\ idx = 5
    /\ InfoLabels(Cur) \in DOMAIN scraped.info
    /\ Cur.subscriptionNumber \in DOMAIN scraped.quantity
    /\ scraped.quantity[Cur.subscriptionNumber] # ExpectedQuantity(Cur.quantity)
    /\ scraped.end[Cur.subscriptionNumber] # <<Cur.endDate.sec, 1>>
    /\ subs.elems[4].subscriptionNumber # Cur.subscriptionNumber
    /\ subs.elems[4].subscriptionNumber \in DOMAIN scraped.quantity
    /\ scraped.quantity[subs.elems[4].subscriptionNumber] = ExpectedQuantity(subs.elems[4].quantity)
    /\ scraped.end[subs.elems[4].subscriptionNumber] = <<subs.elems[4].endDate.sec, 1>>

\* C18: the data source, chosen by the package variable importUrl, and the
\* client, chosen by the argument jsonUrl, agree: a cycle runs either the
\* paginated fetch, with the token client, or the import fetch, with the plain
\* client; no request to the import URL carries the bearer token and no
\* request to the API goes without it.
C18_SourceAndClientAgree ==
    bgPc # "none" =>
        /\ params.jsonUrl = importUrl
        /\ client = (IF importUrl = "" THEN "oauth2" ELSE "plain")
        /\ importUrl = "" => bgPc \notin {"do", "do_resp"}
        /\ importUrl # "" => bgPc \notin {"get", "resp"}
        /\ \A k \in 1..Len(requests) :
              IF requests[k].target = "api"
              THEN importUrl = "" /\ requests[k].auth = "bearer"
              ELSE /\ importUrl # ""
                   /\ requests[k].target = importUrl
                   /\ requests[k].auth \in {"basic", "none"}

\* second cycle of import mode with the token set: the request went to the
\* import URL from the plain client, with the basic credentials only
C18_Witness ==
    /\ importUrl # ""
    /\ environ["RH_OFFLINE_TOKEN"] # ""
    /\ cycle = 2
    /\ bgPc = "do_resp"
    /\ client = "plain"
    /\ Len(requests) = 1
    /\ requests[1].target = importUrl
    /\ requests[1].auth = "basic"

\* the response is a JSON object with no error message and no record list
NoListObject(r) ==
    /\ ~r.err
    /\ ~r.readErr
    /\ r.doc.kind = "object"
    /\ r.doc.message = ""
    /\ r.doc.body.isNil

C19_Inv ==
    (importUrl = "" /\ bgPc = "fetched" /\ NoListObject(lastResp)) =>
        /\ err = ""
        /\ Len(served) = Len(requests)
        /\ Len(LastServed.body) = 0
        /\ subs = allSubs
        /\ subs.elems = Flatten(SubSeq(served, 1, Len(served) - 1))

C19_Step ==
    (importUrl = "" /\ bgPc = "resp" /\ bgPc' # "resp" /\ NoListObject(lastResp')) =>
        /\ bgPc' = "fetched"
        /\ err' = ""
        /\ subs' = allSubs
        /\ UNCHANGED <<allSubs, offset, procVars>>

\* C19: a page response that is an error envelope with an empty message,
\* whatever its code, or any JSON object without a record list, is no failure:
\* it counts as a page of zero records, ends the pagination and the call
\* returns the records of the pages before it, none when it is the first page.
C19_EmptyMessageEnvelope == []C19_Inv /\ [][C19_Step]_vars

\* the second page is an envelope with code 500 and no message: the call
\* returned the records of the first page without error
C19_Witness ==
    /\ importUrl = ""
    /\ bgPc = "fetched"
    /\ NoListObject(lastResp)
    /\ lastResp.doc.code = 500
    /\ err = ""
    /\ Len(served) = 2
    /\ Len(served[1].body) >= 50
    /\ subs.elems = served[1].body

\* response bodies received and not closed
OpenBodies == fetchOpen + loopOpen

\* C20: every response body opened in a cycle is closed when the cycle ends:
\* the bodies open are at most as many as the requests of the cycle in
\* progress, and none is open between cycles or after the goroutine returned,
\* in live mode and in import mode.
C20_BodiesClosedByCycleEnd ==
    /\ OpenBodies <= Len(requests)
    /\ (bgPc \in {"loop", "sleeping", "returned"}) => OpenBodies = 0

====
